---- MODULE Spec2Model ----
(***************************************************************************)
(* Model of kernel/scripts/extract_backtraces.py: the regular expression   *)
(* of process_logs evaluated character by character on the log text, the   *)
(* finditer loop that hands every match to symbolize, and the report that  *)
(* main prints.  A text is a sequence of one-character strings; positions  *)
(* are 1-based and an "end" is the position after the last matched one.    *)
(***************************************************************************)
EXTENDS Integers, Sequences, FiniteSets, TLC

VARIABLES input, text, executable, pc, pos, calls, outputs, printed, error

vars == <<input, text, executable, pc, pos, calls, outputs, printed, error>>

(* ------------------------------ bounds --------------------------------- *)
MaxLines == 3
MaxRun == 3
MaxTokLen == 4

(* --------------------------- character classes ------------------------- *)
\* [0-9A-Fa-f]
HexDigits ==
  {"0", "1", "2", "3", "4", "5", "6", "7", "8", "9",
   "a", "b", "c", "d", "e", "f", "A", "B", "C", "D", "E", "F"}

\* [ \t]
HSpace == {" ", "\t"}

\* \s of a str pattern, which is also what str.split() splits on
WSpace == {" ", "\t", "\n", "\r", "\f"}

\* the letter of a prefix as a case-insensitive pattern would take it
PrefixLettersAnyCase == {"x", "v", "X", "V"}

\* [xv]: the pattern is compiled with VERBOSE | MULTILINE, not IGNORECASE
PrefixLetters == {"x", "v"}

BacktraceLit == <<"B", "a", "c", "k", "t", "r", "a", "c", "e", ":">>

backtraceLit == <<"b", "a", "c", "k", "t", "r", "a", "c", "e", ":">>

\* a group that did not take part in the match (None); like the empty
\* string it is false in `multiline or inline`
None == <<>>

NoMatch == [start |-> 0, end |-> 0, multiline |-> None, inline |-> None]

Max(S) == CHOOSE m \in S : \A n \in S : n <= m

(* ------------------------- the pattern, piecewise ---------------------- *)
RECURSIVE HexEnd(_, _)
\* [0-9A-Fa-f]* taken greedily from i: the position after the run
HexEnd(t, i) ==
  IF i <= Len(t) /\ t[i] \in HexDigits THEN HexEnd(t, i + 1) ELSE i

RECURSIVE SkipHSpace(_, _)
\* [ \t]* taken greedily from i
SkipHSpace(t, i) ==
  IF i <= Len(t) /\ t[i] \in HSpace THEN SkipHSpace(t, i + 1) ELSE i

RECURSIVE SkipWSpace(_, _)
\* \s* taken greedily from i
SkipWSpace(t, i) ==
  IF i <= Len(t) /\ t[i] \in WSpace THEN SkipWSpace(t, i + 1) ELSE i

\* 0[xv][0-9A-Fa-f]+ at i: its end, 0 when it does not match.  What follows
\* a token in the pattern is optional or must be white space, so giving
\* back hex digits never turns a failure into a match.
TokenEnd(t, i) ==
  IF /\ i + 2 <= Len(t)
     /\ t[i] = "0"
     /\ t[i + 1] \in PrefixLetters
     /\ t[i + 2] \in HexDigits
  THEN HexEnd(t, i + 2)
  ELSE 0

\* [ \t]*0[xv][0-9A-Fa-f]+[ \t]*\n at i: its end, 0 when it does not match
AddrLineEnd(t, i) ==
  LET e == TokenEnd(t, SkipHSpace(t, i))
      b == SkipHSpace(t, e)
  IN IF e # 0 /\ b <= Len(t) /\ t[b] = "\n" THEN b + 1 ELSE 0

RECURSIVE AddrLinesEnd(_, _)
\* (?:[ \t]*0[xv][0-9A-Fa-f]+[ \t]*\n)+ at i, greedy
AddrLinesEnd(t, i) ==
  LET e == AddrLineEnd(t, i)
  IN IF e = 0 THEN 0
     ELSE LET r == AddrLinesEnd(t, e) IN IF r = 0 THEN e ELSE r

RECURSIVE TokenRunEndStar(_, _)
\* the run with * in place of +: an empty run matches
TokenRunEndStar(t, i) ==
  LET e == TokenEnd(t, SkipHSpace(t, i))
  IN IF e = 0 THEN i ELSE TokenRunEndStar(t, e)

RECURSIVE TokenRunEnd(_, _)
\* (?:[ \t]*0[xv][0-9A-Fa-f]+)+ at i, greedy
TokenRunEnd(t, i) ==
  LET e == TokenEnd(t, SkipHSpace(t, i))
  IN IF e = 0 THEN 0
     ELSE LET r == TokenRunEnd(t, e) IN IF r = 0 THEN e ELSE r

MarkerAt(t, s, lit) ==
  /\ s + Len(lit) - 1 <= Len(t)
  /\ SubSeq(t, s, s + Len(lit) - 1) = lit

\* Backtrace:\s*\n(?P<multiline>(line)+) at s.  \s* takes white space
\* greedily, newlines included, and gives it back until a \n at p is
\* followed by an address line.
MultilineAlt(t, s) ==
  IF ~MarkerAt(t, s, BacktraceLit) THEN NoMatch
  ELSE
    LET j == s + Len(BacktraceLit)
        k == SkipWSpace(t, j)
        cands == {p \in j..(k - 1) : t[p] = "\n" /\ AddrLinesEnd(t, p + 1) # 0}
    IN IF cands = {} THEN NoMatch
       ELSE LET p == Max(cands)
                e == AddrLinesEnd(t, p + 1)
            IN [start |-> s, end |-> e,
                multiline |-> SubSeq(t, p + 1, e - 1), inline |-> None]

\* \[ required instead of \[?
GroupStartBracketed(t, p) ==
  IF p <= Len(t) /\ t[p] = "[" /\ TokenRunEnd(t, p + 1) # 0 THEN p + 1 ELSE 0

\* \[? followed by the inline group, \s* having ended before p: where the
\* group starts, 0 when the rest does not match.  The bracket is taken
\* first (greedy ?), then left out.
GroupStart(t, p) ==
  IF p <= Len(t) /\ t[p] = "[" /\ TokenRunEnd(t, p + 1) # 0 THEN p + 1
  ELSE IF TokenRunEnd(t, p) # 0 THEN p
  ELSE 0

\* backtrace:\s*\[?(?P<inline>(token)+)\]? at s
InlineAlt(t, s) ==
  IF ~MarkerAt(t, s, backtraceLit) THEN NoMatch
  ELSE
    LET j == s + Len(backtraceLit)
        k == SkipWSpace(t, j)
        cands == {p \in j..k : GroupStart(t, p) # 0}
    IN IF cands = {} THEN NoMatch
       ELSE LET p == Max(cands)
                g == GroupStart(t, p)
                e == TokenRunEnd(t, g)
            IN [start |-> s,
                end |-> IF e <= Len(t) /\ t[e] = "]" THEN e + 1 ELSE e,
                multiline |-> None, inline |-> SubSeq(t, g, e - 1)]

\* the alternation at s: the multiline branch is tried first
PatternAt(t, s) ==
  LET m == MultilineAlt(t, s)
  IN IF m.start # 0 THEN m ELSE InlineAlt(t, s)

RECURSIVE Search(_, _)
\* the next match of finditer: the leftmost match starting at s or later
Search(t, s) ==
  IF s > Len(t) THEN NoMatch
  ELSE LET m == PatternAt(t, s)
       IN IF m.start # 0 THEN m ELSE Search(t, s + 1)

RECURSIVE SkipWord(_, _)
SkipWord(t, i) ==
  IF i <= Len(t) /\ t[i] \notin WSpace THEN SkipWord(t, i + 1) ELSE i

RECURSIVE Split(_)
\* str.split(): the maximal runs of non-white-space characters
Split(s) ==
  LET a == SkipWSpace(s, 1)
      e == SkipWord(s, a)
  IN IF a > Len(s) THEN <<>>
     ELSE <<SubSeq(s, a, e - 1)>> \o Split(SubSeq(s, e, Len(s)))

RECURSIVE Join(_, _)
\* sep.join(parts)
Join(parts, sep) ==
  IF parts = <<>> THEN <<>>
  ELSE IF Len(parts) = 1 THEN parts[1]
  ELSE parts[1] \o sep \o Join(Tail(parts), sep)

\* match.group('multiline') or match.group('inline')
Addresses(m) == IF m.multiline # <<>> THEN m.multiline ELSE m.inline

\* addresses.split()
AddressesList(m) == Split(Addresses(m))

(* ------------------------------- inputs -------------------------------- *)
LineSet ==
  { <<>>,
    BacktraceLit,
    <<"g", " ">> \o BacktraceLit \o <<" ">>,
    <<"0", "x", "1">>,
    <<" ", "0", "v", "F", " ">>,
    <<"g">>,
    backtraceLit \o <<" ", "[", "0", "x", "1", " ", "0", "v", "F", "]">>,
    backtraceLit }

TokenSet == { <<"0", "x", "1">>, <<"0", "v", "F">> }

SepSet == { <<" ">>, <<"\t", " ">> }

TokChars == {"0", "x", "X", "v", "a", "F", "g"}

ExampleWords ==
  { <<"0", "x", "D", "E", "A", "D", "B", "E", "E", "F">>,
    <<"0", "v", "F", "F">>,
    <<"0", "X", "a", "b">>,
    <<"D", "E", "A", "D", "B", "E", "E", "F">> }

Executables == {"kernel.elf", "missing.elf"}

ResolverOutputs == {"main\n", "??\n"}

Failures == {"CalledProcessError", "FileNotFoundError"}

NoError == "none"

Pending == "pending"

SeqsUpTo(S, n) == UNION {[1..k -> S] : k \in 0..n}

\* a text of lines, the last one terminated or not
LinesText(ls, final) ==
  Join(ls, <<"\n">>) \o (IF final THEN <<"\n">> ELSE <<>>)

RECURSIVE RunText(_, _)
\* a run of tokens, seps[i] between token i and token i + 1
RunText(toks, seps) ==
  IF Len(toks) = 1 THEN toks[1]
  ELSE toks[1] \o seps[1] \o RunText(Tail(toks), Tail(seps))

InlineVariants == {"bracketed", "bare", "open", "newline"}

InlineText(variant, run) ==
  backtraceLit \o <<" ">> \o
    CASE variant = "bracketed" -> <<"[">> \o run \o <<"]">>
      [] variant = "bare" -> run
      [] variant = "open" -> <<"[">> \o run
      [] variant = "newline" -> run \o <<"\n">> \o run

TokenKinds == {"inline", "multiline"}

TokenText(kind, w) ==
  IF kind = "inline" THEN backtraceLit \o <<" ">> \o w
  ELSE BacktraceLit \o <<"\n">> \o w \o <<"\n">>

(* ------------------------------- states -------------------------------- *)
Start ==
  /\ executable \in Executables
  /\ pc = "scan"
  /\ pos = 1
  /\ calls = <<>>
  /\ outputs = <<>>
  /\ printed = <<>>
  /\ error = NoError

Init ==
  /\ \E ls \in SeqsUpTo(LineSet, MaxLines), final \in BOOLEAN :
       /\ input = [family |-> "lines", lines |-> ls, final |-> final]
       /\ text = LinesText(ls, final)
  /\ Start

InitInline ==
  /\ \E n \in 1..MaxRun, variant \in InlineVariants :
       \E toks \in [1..n -> TokenSet], seps \in [1..(n - 1) -> SepSet] :
         /\ input = [family |-> "inline", variant |-> variant,
                     tokens |-> toks, run |-> RunText(toks, seps)]
         /\ text = InlineText(variant, RunText(toks, seps))
  /\ Start

InitToken ==
  /\ \E w \in (SeqsUpTo(TokChars, MaxTokLen) \ {<<>>}) \cup ExampleWords,
        kind \in TokenKinds :
       /\ input = [family |-> "token", kind |-> kind, word |-> w]
       /\ text = TokenText(kind, w)
  /\ Start

(* ------------------------------- actions ------------------------------- *)
\* outputs.insert(0, ...) in place of outputs.append(...)
PrependOutput(outs, out) == <<out>> \o outs

\* outputs.append(symbolize(...))
AppendOutput(outs, out) == Append(outs, out)

\* one turn of `for match in pattern.finditer(logs_content)` up to the
\* start of the subprocess: the next match, its addresses split, and
\* subprocess.run called with them
NextMatch ==
  /\ pc = "scan"
  /\ LET m == Search(text, pos)
     IN /\ m.start # 0
        /\ pos' = m.end
        /\ calls' = Append(calls,
             [addresses |-> AddressesList(m),
              stdin |-> Join(AddressesList(m), <<"\n">>),
              exe |-> executable,
              start |-> m.start,
              kind |-> IF m.multiline # <<>> THEN "multiline" ELSE "inline",
              stdout |-> Pending])
  /\ pc' = "symbolize"
  /\ UNCHANGED <<input, text, executable, outputs, printed, error>>

\* the subprocess exits with status 0: its stdout is appended
SymbolizeReturn ==
  /\ pc = "symbolize"
  /\ \E out \in ResolverOutputs :
       /\ calls' = [calls EXCEPT ![Len(calls)].stdout = out]
       /\ outputs' = AppendOutput(outputs, out)
  /\ pc' = "scan"
  /\ UNCHANGED <<input, text, executable, pos, printed, error>>

\* the failure caught and the loop carried on
SymbolizeFailSwallowed ==
  /\ pc = "symbolize"
  /\ \E f \in Failures : error' = f
  /\ pc' = "scan"
  /\ UNCHANGED <<input, text, executable, pos, calls, outputs, printed>>

\* check=True raises CalledProcessError on a non-zero exit, and run raises
\* FileNotFoundError when llvm-symbolizer is missing; neither process_logs
\* nor main catches it
SymbolizeFail ==
  /\ pc = "symbolize"
  /\ \E f \in Failures : error' = f
  /\ pc' = "aborted"
  /\ UNCHANGED <<input, text, executable, pos, calls, outputs, printed>>

\* finditer is exhausted: process_logs returns outputs
ReturnOutputs ==
  /\ pc = "scan"
  /\ Search(text, pos).start = 0
  /\ pc' = "report"
  /\ UNCHANGED <<input, text, executable, pos, calls, outputs, printed, error>>

Separator == [i \in 1..80 |-> "="]

RECURSIVE Blocks(_, _, _)
\* the body of `for i, backtrace in enumerate(backtraces)` from index i on,
\* the label being i + offset
Blocks(backtraces, i, offset) ==
  IF i >= Len(backtraces) THEN <<>>
  ELSE << Separator,
          <<"Backtrace #", ToString(i + offset)>>,
          <<backtraces[i + 1]>> >> \o Blocks(backtraces, i + 1, offset)

Suffix(n) ==
  IF ~(n > 1) THEN "backtrace"
  ELSE "backtraces, printing them in order they occur in logs"

\* the label printed as the 0-based index i
ReportLinesZeroBased(backtraces) ==
  IF backtraces # <<>>
  THEN << <<"Found ", ToString(Len(backtraces)), " ", Suffix(Len(backtraces))>> >>
         \o Blocks(backtraces, 0, 0)
  ELSE <<>>

\* the report without `if backtraces:`
ReportLinesUnguarded(backtraces) ==
  << <<"Found ", ToString(Len(backtraces)), " ", Suffix(Len(backtraces))>> >>
    \o Blocks(backtraces, 0, 1)

\* what main prints, line by line
ReportLines(backtraces) ==
  IF backtraces # <<>>
  THEN << <<"Found ", ToString(Len(backtraces)), " ", Suffix(Len(backtraces))>> >>
         \o Blocks(backtraces, 0, 1)
  ELSE <<>>

Report ==
  /\ pc = "report"
  /\ printed' = ReportLines(outputs)
  /\ pc' = "done"
  /\ UNCHANGED <<input, text, executable, pos, calls, outputs, error>>

Next ==
  \/ NextMatch
  \/ SymbolizeReturn
  \/ SymbolizeFail
  \/ ReturnOutputs
  \/ Report

Spec == Init /\ [][Next]_vars

SpecInline == InitInline /\ [][Next]_vars

SpecToken == InitToken /\ [][Next]_vars

(* --------------------- process_logs as a function ---------------------- *)
RECURSIVE Occurrences(_, _)
\* every match of finditer from s on, with the list symbolize is given
Occurrences(t, s) ==
  LET m == Search(t, s)
  IN IF m.start = 0 THEN <<>>
     ELSE <<[start |-> m.start, addresses |-> AddressesList(m)]>>
            \o Occurrences(t, m.end)

AddrLists(t) ==
  LET occ == Occurrences(t, 1) IN [k \in 1..Len(occ) |-> occ[k].addresses]

CallLists == [k \in 1..Len(calls) |-> calls[k].addresses]

(* ------------------- the grammar the properties refer to --------------- *)
\* 0, then x or v, then one or more hex digits, and nothing else
IsAddressToken(w) ==
  /\ Len(w) >= 3
  /\ w[1] = "0"
  /\ w[2] \in {"x", "v"}
  /\ \A i \in 3..Len(w) : w[i] \in HexDigits

\* the same with the letter taken in either case
IsAddressTokenAnyCase(w) ==
  /\ Len(w) >= 3
  /\ w[1] = "0"
  /\ w[2] \in {"x", "v", "X", "V"}
  /\ \A i \in 3..Len(w) : w[i] \in HexDigits

HasPrefix(w) == Len(w) >= 2 /\ w[1] = "0" /\ w[2] \in {"x", "v"}

\* the position where the line holding position p begins
LineBegin(t, p) == 1 + Max({0} \cup {i \in 1..(p - 1) : t[i] = "\n"})

\* the position of the newline that ends the line beginning at b, or the
\* position after the text when the line is not terminated
LineStop(t, b) == Max({b} \cup {e \in b..(Len(t) + 1) : \A i \in b..(e - 1) : t[i] # "\n"})

LineAt(t, b) == SubSeq(t, b, LineStop(t, b) - 1)

NextLine(t, b) == LineStop(t, b) + 1

\* a line with its leading and trailing blanks and tabs removed
StripH(l) ==
  LET keep == {i \in 1..Len(l) : l[i] \notin HSpace}
  IN IF keep = {} THEN <<>>
     ELSE SubSeq(l, CHOOSE a \in keep : \A i \in keep : a <= i, Max(keep))

IsBareAddressLine(l) == IsAddressToken(StripH(l))

RECURSIVE RunTokens(_, _)
\* the tokens of the maximal run of address-only lines beginning at b
RunTokens(t, b) ==
  IF b > Len(t) \/ ~IsBareAddressLine(LineAt(t, b)) THEN <<>>
  ELSE <<StripH(LineAt(t, b))>> \o RunTokens(t, NextLine(t, b))

\* the line after the one that holds position p
LineAfter(t, p) == NextLine(t, LineBegin(t, p))

\* after the marker at s: white space, an optional bracket, blanks, a token
FollowedByToken(t, s) ==
  LET a == SkipWSpace(t, s + 10)
      b == IF a <= Len(t) /\ t[a] = "[" THEN a + 1 ELSE a
      c == SkipHSpace(t, b)
  IN /\ c + 2 <= Len(t)
     /\ t[c] = "0"
     /\ t[c + 1] \in {"x", "v"}
     /\ t[c + 2] \in HexDigits

(* ------------------------------ properties ----------------------------- *)

\* C1: the resolver is invoked once per occurrence, in the order of the
\* occurrences' positions in the text whatever their encoding, each
\* invocation getting that occurrence's tokens in order and completing
\* before the next one starts; the k-th element of the returned list is the
\* output of the k-th invocation, and when process_logs returns there has
\* been exactly one invocation per occurrence.
C1_InOrderOneAtATime ==
  LET occ == Occurrences(text, 1)
  IN /\ Len(calls) <= Len(occ)
     /\ \A k \in 1..Len(calls) :
          /\ calls[k].start = occ[k].start
          /\ calls[k].addresses = occ[k].addresses
          /\ calls[k].stdin = Join(occ[k].addresses, <<"\n">>)
     /\ \A k \in 1..(Len(calls) - 1) :
          /\ calls[k].start < calls[k + 1].start
          /\ calls[k].stdout # Pending
     /\ Len(outputs) =
          Len(calls) - (IF pc \in {"symbolize", "aborted"} THEN 1 ELSE 0)
     /\ \A k \in 1..Len(outputs) : outputs[k] = calls[k].stdout
     /\ pc \in {"report", "done"} =>
          Len(calls) = Len(occ) /\ Len(outputs) = Len(occ)

C1_Witness ==
  /\ pc = "done"
  /\ Len(calls) >= 2
  /\ calls[1].kind # calls[2].kind
  /\ outputs[1] # outputs[2]

\* C2: once an invocation has failed the run is aborted: the failed
\* invocation stays the last one (no later occurrence is resolved, no
\* retry), nothing has been printed, and no further step is taken.
C2_FailureAborts ==
  /\ [](error # NoError =>
          /\ pc = "aborted"
          /\ printed = <<>>
          /\ calls # <<>>
          /\ calls[Len(calls)].stdout = Pending
          /\ Len(outputs) = Len(calls) - 1)
  /\ [][error = NoError]_vars

C2_Witness ==
  /\ pc = "aborted"
  /\ Len(calls) = 2
  /\ Len(outputs) = 1
  /\ Len(Occurrences(text, 1)) = 3

\* C3 (as claimed): the addresses of a multiline occurrence whose marker
\* line is directly followed by an address-only line are all the tokens of
\* the maximal run of address-only lines after the marker line, the last
\* line of the text included.
C3_Claimed ==
  \A k \in 1..Len(calls) :
    (/\ calls[k].kind = "multiline"
     /\ LineAfter(text, calls[k].start) <= Len(text)
     /\ IsBareAddressLine(LineAt(text, LineAfter(text, calls[k].start))))
    => calls[k].addresses = RunTokens(text, LineAfter(text, calls[k].start))

\* C4: for a run T of tokens separated by blanks and tabs, the texts
\* `backtrace: [T]`, `backtrace: T` and `backtrace: [T` each yield the one
\* occurrence T, and so does T followed by a newline and more tokens; the
\* run on the text at hand hands exactly T to the resolver.
C4_BracketsCosmetic ==
  /\ \A v \in InlineVariants :
       AddrLists(InlineText(v, input.run)) = <<input.tokens>>
  /\ pc \in {"report", "done"} => CallLists = <<input.tokens>>

C4_Witness ==
  /\ pc = "done"
  /\ input.variant = "open"
  /\ Len(input.tokens) = 3
  /\ input.tokens[1] # input.tokens[2]
  /\ CallLists = <<input.tokens>>

\* C5 (as claimed): a word made of 0, then x or v in either case, then hex
\* digits is handed to the resolver as the single token of its occurrence.
C5_Claimed ==
  (pc \in {"report", "done"} /\ IsAddressTokenAnyCase(input.word))
    => CallLists = <<(<<input.word>>)>>

\* C5 (amended): every extracted token is 0, then lowercase x or v, then
\* one or more hex digits of either case; a word of that shape is
\* extracted as the single token of its occurrence in either encoding, and
\* a word without the 0x/0v prefix is never extracted.
C5_TokenGrammar ==
  /\ \A k \in 1..Len(calls) :
       \A i \in 1..Len(calls[k].addresses) :
         IsAddressToken(calls[k].addresses[i])
  /\ IsAddressToken(input.word) => AddrLists(text) = <<(<<input.word>>)>>
  /\ ~HasPrefix(input.word) =>
       \A k \in 1..Len(calls) :
         \A i \in 1..Len(calls[k].addresses) :
           calls[k].addresses[i] # input.word

C5_Witness ==
  /\ pc = "done"
  /\ input.kind = "multiline"
  /\ input.word = <<"0", "v", "a", "F">>
  /\ CallLists = <<(<<input.word>>)>>

\* C6: every invocation gets at least one token, and it comes from a
\* marker that is followed by a token: a marker with no address token
\* after it gives no invocation.
C6_NonEmpty ==
  \A k \in 1..Len(calls) :
    /\ Len(calls[k].addresses) >= 1
    /\ \A i \in 1..Len(calls[k].addresses) : Len(calls[k].addresses[i]) >= 3
    /\ FollowedByToken(text, calls[k].start)

C6_Witness ==
  /\ pc = "done"
  /\ input.lines = <<BacktraceLit, <<"g">>, backtraceLit>>
  /\ calls = <<>>

\* C7: main prints nothing for no backtrace; otherwise `Found 1 backtrace`
\* or `Found n backtraces, printing them in order they occur in logs`,
\* then for i = 1..n a line of 80 `=`, `Backtrace #i` and the i-th block.
C7_Report ==
  pc = "done" =>
    LET n == Len(outputs)
    IN /\ n = 0 => printed = <<>>
       /\ n >= 1 =>
            /\ Len(printed) = 1 + 3 * n
            /\ printed[1] =
                 <<"Found ", ToString(n), " ",
                   IF n = 1 THEN "backtrace"
                   ELSE "backtraces, printing them in order they occur in logs">>
            /\ \A i \in 1..n :
                 /\ Len(printed[3 * i - 1]) = 80
                 /\ \A j \in 1..80 : printed[3 * i - 1][j] = "="
                 /\ printed[3 * i] = <<"Backtrace #", ToString(i)>>
                 /\ printed[3 * i + 1] = <<outputs[i]>>

C7_Witness ==
  /\ pc = "done"
  /\ Len(outputs) = 2
  /\ outputs[1] # outputs[2]
  /\ Len(printed) = 7

\* C8 (as claimed): a multiline occurrence has its marker alone on its
\* line: nothing before it, only white space after it.
C8_Claimed ==
  \A k \in 1..Len(calls) :
    calls[k].kind = "multiline" =>
      /\ calls[k].start = LineBegin(text, calls[k].start)
      /\ \A i \in (calls[k].start + 10)..(LineStop(text, calls[k].start) - 1) :
           text[i] \in WSpace

\* C9 (as claimed): in a multiline occurrence the line directly after the
\* marker line is an address-only line.
C9_Claimed ==
  \A k \in 1..Len(calls) :
    calls[k].kind = "multiline" =>
      /\ LineAfter(text, calls[k].start) <= Len(text)
      /\ IsBareAddressLine(LineAt(text, LineAfter(text, calls[k].start)))

\* C10: a text without occurrences never reaches the resolver, so the run
\* cannot fail and prints nothing, whatever the binary path; a failure
\* needs at least one invocation.
C10_NoOccurrenceNoResolver ==
  /\ Occurrences(text, 1) = <<>> =>
       /\ calls = <<>>
       /\ error = NoError
       /\ pc # "aborted"
       /\ printed = <<>>
  /\ error # NoError => Len(calls) >= 1

C10_Witness ==
  /\ pc = "done"
  /\ executable = "missing.elf"
  /\ input.lines = <<BacktraceLit, <<"g">>>>
  /\ calls = <<>>
  /\ printed = <<>>

====
